---- MODULE Spec2Model ----
(***************************************************************************)
(* A model of src/ais/api_client/anthropic/client.py: the cost estimator,   *)
(* the persisted preference record (config/api/anthropic.json), the         *)
(* first-run selection flow of Client.__init__ and Client.set_model.        *)
(*                                                                         *)
(* Python values are tagged records: None, StrV(<<chars>>), IntV(n),        *)
(* ObjV(function from keys to values), Arr (a JSON array).  Strings are     *)
(* sequences of one-character strings so that lower(), strip(), int() and   *)
(* the `in` substring test are computed as Python computes them.            *)
(* A call returns Ret(value) or Raise(exception name).                      *)
(***************************************************************************)
EXTENDS Integers, Sequences, FiniteSets, TLC

VARIABLES
    fs,                  \* the file system at config/api/anthropic.json
    pc,                  \* where the program is: NoClient, ChoosingModel, ...
    model,               \* self.model
    default_max_tokens,  \* self.default_max_tokens
    max_input,           \* MAX_INPUT of _prompt_model_selection
    custom,              \* custom of _prompt_model_selection, awaiting confirmation
    setupDone,           \* history: a selection flow has saved its choice
    lastOp,              \* history: the last call or input, and how it ended
    lastIO,              \* history: what the last step passed to save and to the
                         \* transport, and what query returned
    cost_call,           \* arguments of the last estimate_cost call
    cost_ret             \* its result

vars == <<fs, pc, model, default_max_tokens, max_input, custom, setupDone,
          lastOp, lastIO, cost_call, cost_ret>>

-----------------------------------------------------------------------------
(* Python values *)

None == [t |-> "none"]
StrV(s) == [t |-> "str", v |-> s]
IntV(n) == [t |-> "int", v |-> n]
ObjV(f) == [t |-> "obj", v |-> f]
Arr == [t |-> "arr"]
Garbage == [t |-> "garbage"]     \* file text that is not JSON

Ret(x) == [exc |-> "none", val |-> x]
Raise(e) == [exc |-> e, val |-> None]

EmptyDict == [k \in {} |-> None]
dict_set(d, k, x) == [j \in (DOMAIN d) \cup {k} |-> IF j = k THEN x ELSE d[j]]
dict_get(d, k, dflt) == IF k \in DOMAIN d THEN d[k] ELSE dflt

-----------------------------------------------------------------------------
(* str.lower, str.strip, `in`, int() *)

UpperChars == <<"A","B","C","D","E","F","G","H","I","J","K","L","M",
                "N","O","P","Q","R","S","T","U","V","W","X","Y","Z">>
LowerChars == <<"a","b","c","d","e","f","g","h","i","j","k","l","m",
                "n","o","p","q","r","s","t","u","v","w","x","y","z">>
DigitChars == <<"0","1","2","3","4","5","6","7","8","9">>

lower_char(c) ==
    IF \E i \in DOMAIN UpperChars : UpperChars[i] = c
    THEN LowerChars[CHOOSE i \in DOMAIN UpperChars : UpperChars[i] = c]
    ELSE c

lower(s) == [i \in 1..Len(s) |-> lower_char(s[i])]

\* sub in s
contains(s, sub) ==
    \E k \in 0..(Len(s) - Len(sub)) : SubSeq(s, k + 1, k + Len(sub)) = sub

RECURSIVE lstrip(_)
lstrip(s) == IF s # <<>> /\ Head(s) = " " THEN lstrip(Tail(s)) ELSE s

RECURSIVE rstrip(_)
rstrip(s) ==
    IF s # <<>> /\ s[Len(s)] = " " THEN rstrip(SubSeq(s, 1, Len(s) - 1)) ELSE s

strip(s) == rstrip(lstrip(s))

is_digit(c) == \E i \in DOMAIN DigitChars : DigitChars[i] = c
digit_val(c) == (CHOOSE i \in DOMAIN DigitChars : DigitChars[i] = c) - 1

RECURSIVE digits_val(_)
digits_val(s) ==
    IF s = <<>> THEN 0
    ELSE digits_val(SubSeq(s, 1, Len(s) - 1)) * 10 + digit_val(s[Len(s)])

\* int(text): an optional sign and decimal digits, surrounding blanks allowed
int_of(text) ==
    LET s == strip(text)
        neg == s # <<>> /\ Head(s) = "-"
        body == IF s # <<>> /\ Head(s) \in {"-", "+"} THEN Tail(s) ELSE s
    IN  IF body # <<>> /\ \A i \in 1..Len(body) : is_digit(body[i])
        THEN Ret(IF neg THEN 0 - digits_val(body) ELSE digits_val(body))
        ELSE Raise("ValueError")

-----------------------------------------------------------------------------
(* SECTION 2: CONSTANTS *)

HAIKU_MODEL == <<"c","l","a","u","d","e","-","h","a","i","k","u","-","4","-","5">>
SONNET_MODEL == <<"c","l","a","u","d","e","-","s","o","n","n","e","t","-","4","-","5">>
OPUS_MODEL == <<"c","l","a","u","d","e","-","o","p","u","s","-","4","-","5">>

HAIKU_INPUT == 1
HAIKU_OUTPUT == 5
HAIKU_CONTEXT == 200000
SONNET_INPUT == 3
SONNET_OUTPUT == 15
SONNET_CONTEXT == 200000
OPUS_INPUT == 5
OPUS_OUTPUT == 25
OPUS_CONTEXT == 200000

PER_MILLION == 1000000
FALLBACK_CONTEXT == 10000
HIGH_COST_THRESHOLD == 10000

-----------------------------------------------------------------------------
(* SECTION 3: estimate_cost.  A cost is an exact fraction num/den of a      *)
(* dollar: x / 1_000_000 * price is [num |-> x * price, den |-> 1000000].   *)

per_million(x, price) == [num |-> x * price, den |-> PER_MILLION]

cost_add(a, b) ==
    IF a.den = b.den
    THEN [num |-> a.num + b.num, den |-> a.den]
    ELSE [num |-> a.num * b.den + b.num * a.den, den |-> a.den * b.den]

\* estimate_cost without model.lower()
estimate_cost_case_sensitive(input_tokens, output_tokens, m) ==
    IF contains(m, <<"h","a","i","k","u">>)
    THEN Ret(cost_add(per_million(input_tokens, HAIKU_INPUT),
                      per_million(output_tokens, HAIKU_OUTPUT)))
    ELSE IF contains(m, <<"s","o","n","n","e","t">>)
    THEN Ret(cost_add(per_million(input_tokens, SONNET_INPUT),
                      per_million(output_tokens, SONNET_OUTPUT)))
    ELSE IF contains(m, <<"o","p","u","s">>)
    THEN Ret(cost_add(per_million(input_tokens, OPUS_INPUT),
                      per_million(output_tokens, OPUS_OUTPUT)))
    ELSE Raise("ValueError")

\* estimate_cost with a default price instead of the final raise
estimate_cost_default_price(input_tokens, output_tokens, m) ==
    IF contains(lower(m), <<"h","a","i","k","u">>)
    THEN Ret(cost_add(per_million(input_tokens, HAIKU_INPUT),
                      per_million(output_tokens, HAIKU_OUTPUT)))
    ELSE IF contains(lower(m), <<"o","p","u","s">>)
    THEN Ret(cost_add(per_million(input_tokens, OPUS_INPUT),
                      per_million(output_tokens, OPUS_OUTPUT)))
    ELSE Ret(cost_add(per_million(input_tokens, SONNET_INPUT),
                      per_million(output_tokens, SONNET_OUTPUT)))

estimate_cost(input_tokens, output_tokens, m) ==
    IF contains(lower(m), <<"h","a","i","k","u">>)
    THEN Ret(cost_add(per_million(input_tokens, HAIKU_INPUT),
                      per_million(output_tokens, HAIKU_OUTPUT)))
    ELSE IF contains(lower(m), <<"s","o","n","n","e","t">>)
    THEN Ret(cost_add(per_million(input_tokens, SONNET_INPUT),
                      per_million(output_tokens, SONNET_OUTPUT)))
    ELSE IF contains(lower(m), <<"o","p","u","s">>)
    THEN Ret(cost_add(per_million(input_tokens, OPUS_INPUT),
                      per_million(output_tokens, OPUS_OUTPUT)))
    ELSE Raise("ValueError")

-----------------------------------------------------------------------------
(* SECTION 4: the persisted record.                                        *)
(* fs = [dir, exists, readable, writable, content]: whether config/api      *)
(* exists, whether the file exists, whether open(path, 'r') and             *)
(* open(path, 'w') succeed on it, and what json.load finds in it.           *)

\* json.load of the file's text
json_load(content) ==
    IF content = Garbage THEN Raise("JSONDecodeError") ELSE Ret(content)

_load_model_from_config(f) ==
    IF ~f.exists THEN Ret(<<None, None>>)
    ELSE IF ~f.readable THEN Ret(<<None, None>>)                 \* IOError
    ELSE IF json_load(f.content).exc # "none" THEN Ret(<<None, None>>)
    ELSE LET config == json_load(f.content).val IN
         IF config.t # "obj" THEN Raise("AttributeError")        \* config.get
         ELSE LET llm == dict_get(config.v, "llm", ObjV(EmptyDict)) IN
              IF llm.t # "obj" THEN Raise("AttributeError")      \* llm.get
              ELSE Ret(<<dict_get(config.v, "model", None),
                         dict_get(llm.v, "default_max_tokens", None)>>)

\* the config dict after the two assignments of _save_model_to_config
updated_config(config, m, t) ==
    dict_set(dict_set(config, "model", m), "default_max_tokens", t)

\* returns [exc, fs]: the exception raised ("none" if none) and the file system
_save_model_to_config(f, m, t) ==
    LET config ==
            IF f.exists /\ f.readable /\ json_load(f.content).exc = "none"
            THEN json_load(f.content).val
            ELSE ObjV(EmptyDict)
    IN  IF config.t # "obj" THEN [exc |-> "TypeError", fs |-> f]  \* config['model'] = ...
        ELSE IF ~f.dir THEN [exc |-> "FileNotFoundError", fs |-> f]
        ELSE IF f.exists /\ ~f.writable THEN [exc |-> "PermissionError", fs |-> f]
        ELSE [exc |-> "none",
              fs |-> [dir |-> TRUE, exists |-> TRUE,
                      readable |-> IF f.exists THEN f.readable ELSE TRUE,
                      writable |-> TRUE,
                      content |-> ObjV(updated_config(config.v, m, t))]]

\* _get_context_limit with the first family token misspelt
_get_context_limit_typo(m) ==
    IF contains(lower(m), <<"h","i","a","k","u">>) THEN HAIKU_CONTEXT
    ELSE IF contains(lower(m), <<"s","o","n","n","e","t">>) THEN SONNET_CONTEXT
    ELSE IF contains(lower(m), <<"o","p","u","s">>) THEN OPUS_CONTEXT
    ELSE FALLBACK_CONTEXT

_get_context_limit(m) ==
    IF contains(lower(m), <<"h","a","i","k","u">>) THEN HAIKU_CONTEXT
    ELSE IF contains(lower(m), <<"s","o","n","n","e","t">>) THEN SONNET_CONTEXT
    ELSE IF contains(lower(m), <<"o","p","u","s">>) THEN OPUS_CONTEXT
    ELSE FALLBACK_CONTEXT

-----------------------------------------------------------------------------
(* Inputs: what the user types, what callers pass, what the file may hold *)

MaxTokenCount == 3

UNKNOWN_MODEL == <<"g","p","t","-","4">>

ModelChoices == {<<"1">>, <<"2">>, <<"3">>, <<"4">>, <<" ","2"," ">>, <<"5">>, <<>>}
TokenChoices == {<<"1">>, <<"2">>, <<"3">>, <<"4">>, <<"5">>, <<"6">>}
CustomTexts ==
    {<<"0">>, <<"1">>, <<"1","0","0","0","0">>, <<"1","0","0","0","1">>,
     <<"2","0","0","0","0","0">>, <<"2","0","0","0","0","1">>,
     <<"2","0","0",",","0","0","0">>, <<"a","b","c">>, <<>>}
ConfirmAnswers == {<<"y">>, <<"Y">>, <<"n">>, <<"y","e","s">>, <<>>}
SetModelArgs ==
    {HAIKU_MODEL, SONNET_MODEL, OPUS_MODEL, UNKNOWN_MODEL, <<>>,
     <<"s","o","n","n","e","t">>,
     <<"C","l","a","u","d","e","-","S","o","n","n","e","t","-","4","-","5">>}
CostModels ==
    SetModelArgs \cup
    {<<"O","P","U","S">>, <<"s","o","n","n","e">>,
     <<"o","p","u","s","-","h","a","i","k","u">>,
     <<"o","p","u","s","-","S","o","n","n","e","t">>,
     <<"s","o","n","n","e","t","-","H","A","I","K","U">>}

Absent == [t |-> "absent"]      \* a key the object does not have
FileKeys == {"model", "llm", "other", "default_max_tokens"}
mk_dict(mv, lv, ov, dv) ==
    LET all == [k \in FileKeys |->
                   IF k = "model" THEN mv
                   ELSE IF k = "llm" THEN lv
                   ELSE IF k = "other" THEN ov ELSE dv]
    IN  [k \in {j \in FileKeys : all[j] # Absent} |-> all[k]]

llm_with(t) == ObjV([k \in {"default_max_tokens"} |-> IntV(t)])

InitDicts ==
    { mk_dict(mv, lv, ov, dv) :
        mv \in {Absent, StrV(SONNET_MODEL), StrV(UNKNOWN_MODEL)},
        lv \in {Absent, None, ObjV(EmptyDict), llm_with(0), llm_with(4096),
                llm_with(200001)},
        ov \in {Absent, IntV(1)},
        dv \in {Absent, IntV(512)} }

InitFiles ==
    { [dir |-> d, exists |-> FALSE, readable |-> FALSE, writable |-> FALSE,
       content |-> Garbage] : d \in BOOLEAN }
    \cup
    { [dir |-> TRUE, exists |-> TRUE, readable |-> FALSE, writable |-> w,
       content |-> Garbage] : w \in BOOLEAN }
    \cup
    { [dir |-> TRUE, exists |-> TRUE, readable |-> TRUE, writable |-> w,
       content |-> c] :
        w \in BOOLEAN, c \in {Garbage, Arr} \cup {ObjV(d) : d \in InitDicts} }

NoCall == [input_tokens |-> 0, output_tokens |-> 0, model |-> <<>>]
NoOp == [op |-> "none", arg |-> <<>>, exc |-> "none", saved |-> FALSE]
NoIO ==
    [calls |-> 0, request |-> None, response |-> None, ret |-> None,
     save_args |-> <<>>]

-----------------------------------------------------------------------------
(* Client *)

Init ==
    /\ fs \in InitFiles
    /\ pc = "NoClient"
    /\ model = None
    /\ default_max_tokens = None
    /\ max_input = 0
    /\ custom = 0
    /\ setupDone = FALSE
    /\ lastOp = NoOp
    /\ lastIO = NoIO
    /\ cost_call = NoCall
    /\ cost_ret = Raise("none")

\* Client(api_key): a new client object, in the same or a later process
Construct ==
    /\ pc \in {"NoClient", "Ready", "Aborted", "Failed"}
    /\ LET r == _load_model_from_config(fs) IN
        /\ pc' = IF r.exc # "none" THEN "Failed"
                 ELSE IF r.val[1] = None \/ r.val[2] = None THEN "ChoosingModel"
                 ELSE "Ready"
        /\ model' = IF r.exc # "none" THEN None ELSE r.val[1]
        /\ default_max_tokens' = IF r.exc # "none" THEN None ELSE r.val[2]
        /\ lastOp' = [op |-> "__init__", arg |-> <<>>, exc |-> r.exc, saved |-> FALSE]
    /\ max_input' = 0
    /\ custom' = 0
    /\ lastIO' = NoIO
    /\ UNCHANGED <<fs, setupDone, cost_call, cost_ret>>

\* choice 4 of the model menu, or anything that is not a model
is_quit_or_invalid(choice) == choice \notin {<<"1">>, <<"2">>, <<"3">>}

\* choice 4 of the model menu: Quit
is_quit(choice) == choice = <<"4">>

\* the model selection loop, one input
ChooseModel(text) ==
    /\ pc = "ChoosingModel"
    /\ LET choice == strip(text)
           chosen == IF choice = <<"1">> THEN StrV(HAIKU_MODEL)
                     ELSE IF choice = <<"2">> THEN StrV(SONNET_MODEL)
                     ELSE IF choice = <<"3">> THEN StrV(OPUS_MODEL)
                     ELSE None
       IN  /\ lastOp' = [op |-> "choose_model", arg |-> text, exc |-> "none",
                         saved |-> FALSE]
           /\ IF chosen # None
              THEN /\ model' = chosen
                   /\ max_input' = _get_context_limit(chosen.v)
                   /\ pc' = "ChoosingMaxTokens"
                   /\ UNCHANGED default_max_tokens
              ELSE IF is_quit(choice)
              THEN /\ pc' = "Aborted"                    \* sys.exit(0)
                   /\ model' = None
                   /\ default_max_tokens' = None
                   /\ UNCHANGED max_input
              ELSE UNCHANGED <<pc, model, default_max_tokens, max_input>>
    /\ lastIO' = NoIO
    /\ UNCHANGED <<fs, custom, setupDone, cost_call, cost_ret>>

\* the save called before self.default_max_tokens is assigned
SaveSelection_before_assignment(t, op, arg) ==
    LET r == _save_model_to_config(fs, model, default_max_tokens) IN
    /\ fs' = r.fs
    /\ pc' = IF r.exc = "none" THEN "Ready" ELSE "Failed"
    /\ model' = IF r.exc = "none" THEN model ELSE None
    /\ default_max_tokens' = IF r.exc = "none" THEN IntV(t) ELSE None
    /\ setupDone' = (setupDone \/ r.exc = "none")
    /\ lastOp' = [op |-> op, arg |-> arg, exc |-> r.exc, saved |-> TRUE]
    /\ lastIO' = [NoIO EXCEPT !.save_args = <<model, default_max_tokens>>]

\* leaving the max-token loop with value t: _save_model_to_config, then done
SaveSelection(t, op, arg) ==
    LET r == _save_model_to_config(fs, model, IntV(t)) IN
    /\ fs' = r.fs
    /\ pc' = IF r.exc = "none" THEN "Ready" ELSE "Failed"
    /\ model' = IF r.exc = "none" THEN model ELSE None
    /\ default_max_tokens' = IF r.exc = "none" THEN IntV(t) ELSE None
    /\ setupDone' = (setupDone \/ r.exc = "none")
    /\ lastOp' = [op |-> op, arg |-> arg, exc |-> r.exc, saved |-> TRUE]
    /\ lastIO' = [NoIO EXCEPT !.save_args = <<model, IntV(t)>>]

\* 1 <= custom < MAX_INPUT
in_range_exclusive(n, limit) == 1 <= n /\ n < limit

\* 1 <= custom <= MAX_INPUT
in_range(n, limit) == 1 <= n /\ n <= limit

\* custom > 100000
needs_confirmation_extra_zero(n) == n > 100000

\* custom > 10000
needs_confirmation(n) == n > HIGH_COST_THRESHOLD

preset(choice) ==
    IF choice = <<"1">> THEN 1024
    ELSE IF choice = <<"2">> THEN 2048
    ELSE IF choice = <<"3">> THEN 4096
    ELSE IF choice = <<"4">> THEN 8192
    ELSE 0

\* the max-token loop, one pass: the choice and, for choice 5, the value typed
ChooseMaxTokens(text, value) ==
    /\ pc = "ChoosingMaxTokens"
    /\ LET choice == strip(text)
           n == int_of(value)
           stay(o) ==
               /\ lastOp' = [op |-> o, arg |-> IF o = "custom_max_tokens" THEN value ELSE text,
                             exc |-> "none", saved |-> FALSE]
               /\ lastIO' = NoIO
               /\ UNCHANGED <<fs, pc, model, default_max_tokens, custom, setupDone>>
       IN  IF preset(choice) # 0
           THEN /\ SaveSelection(preset(choice), "choose_max_tokens", text)
                /\ UNCHANGED custom
           ELSE IF choice = <<"5">>
           THEN IF n.exc # "none" THEN stay("custom_max_tokens")   \* except ValueError
                ELSE IF ~in_range(n.val, max_input) THEN stay("custom_max_tokens")
                ELSE IF needs_confirmation(n.val)
                THEN IF estimate_cost(n.val, n.val, model.v).exc # "none"
                     THEN /\ pc' = "Failed"               \* ValueError leaves __init__
                          /\ model' = None
                          /\ default_max_tokens' = None
                          /\ lastOp' = [op |-> "custom_max_tokens", arg |-> value,
                                        exc |-> "ValueError", saved |-> FALSE]
                          /\ lastIO' = NoIO
                          /\ UNCHANGED <<fs, custom, setupDone>>
                     ELSE /\ pc' = "Confirming"
                          /\ custom' = n.val
                          /\ lastOp' = [op |-> "custom_max_tokens", arg |-> value,
                                        exc |-> "none", saved |-> FALSE]
                          /\ lastIO' = NoIO
                          /\ UNCHANGED <<fs, model, default_max_tokens, setupDone>>
                ELSE /\ SaveSelection(n.val, "custom_max_tokens", value)
                     /\ UNCHANGED custom
           ELSE stay("choose_max_tokens")
    /\ UNCHANGED <<max_input, cost_call, cost_ret>>

\* confirm != 'y'
declined(text) == lower(strip(text)) # <<"y">>

\* "Continue? (y/n)" after a custom value over 10,000
Confirm(text) ==
    /\ pc = "Confirming"
    /\ IF declined(text)
       THEN /\ pc' = "ChoosingMaxTokens"                  \* continue
            /\ lastOp' = [op |-> "confirm", arg |-> text, exc |-> "none",
                          saved |-> FALSE]
            /\ lastIO' = NoIO
            /\ UNCHANGED <<fs, model, default_max_tokens, setupDone>>
       ELSE SaveSelection(custom, "confirm", text)
    /\ UNCHANGED <<custom, max_input, cost_call, cost_ret>>

\* a validation by family name, as estimate_cost classifies
valid_model_by_family(m) ==
    \/ contains(lower(m), <<"h","a","i","k","u">>)
    \/ contains(lower(m), <<"s","o","n","n","e","t">>)
    \/ contains(lower(m), <<"o","p","u","s">>)

valid_model(m) == m \in {HAIKU_MODEL, SONNET_MODEL, OPUS_MODEL}

set_model(m) ==
    /\ pc = "Ready"
    /\ IF ~valid_model(m)
       THEN /\ lastOp' = [op |-> "set_model", arg |-> m, exc |-> "ValueError",
                          saved |-> FALSE]
            /\ lastIO' = NoIO
            /\ UNCHANGED <<fs, model>>
       ELSE LET r == _save_model_to_config(fs, StrV(m), default_max_tokens) IN
            /\ model' = StrV(m)
            /\ fs' = r.fs
            /\ lastIO' = [NoIO EXCEPT !.save_args = <<StrV(m), default_max_tokens>>]
            /\ lastOp' = [op |-> "set_model", arg |-> m, exc |-> r.exc,
                          saved |-> TRUE]
    /\ UNCHANGED <<pc, default_max_tokens, max_input, custom, setupDone,
                   cost_call, cost_ret>>

\* what self.client.messages.create does: it raises anthropic.APIError, or
\* answers with a text and the usage counts
api_error == [ok |-> FALSE, input_tokens |-> 0, output_tokens |-> 0]
TransportOutcomes ==
    {api_error, [ok |-> TRUE, input_tokens |-> 2, output_tokens |-> MaxTokenCount]}
MaxTokensArgs == {None, IntV(100)}
SystemPrompts == {None, StrV(<<>>), StrV(<<"s">>)}

\* query with the APIError swallowed: no raise after the diagnostic note
query_result_swallow(m, t, max_tokens, system_prompt, outcome) ==
    IF m = None
    THEN [exc |-> "ValueError", val |-> None, calls |-> 0, request |-> None]
    ELSE LET request ==
                 [model |-> m,
                  max_tokens |-> IF max_tokens = None THEN t ELSE max_tokens,
                  system |-> IF system_prompt \in {None, StrV(<<>>)}
                             THEN Absent ELSE system_prompt]
             cost == estimate_cost(outcome.input_tokens, outcome.output_tokens, m.v)
         IN  IF ~outcome.ok
             THEN [exc |-> "none", val |-> None, calls |-> 1, request |-> request]
             ELSE IF cost.exc # "none"
             THEN [exc |-> cost.exc, val |-> None, calls |-> 1, request |-> request]
             ELSE [exc |-> "none",
                   val |-> [text |-> "text",
                            input_tokens |-> outcome.input_tokens,
                            output_tokens |-> outcome.output_tokens,
                            cost |-> cost.val,
                            model |-> m],
                   calls |-> 1, request |-> request]

\* query without the model check, and with 1024 for an omitted max_tokens
query_result_unchecked(m, t, max_tokens, system_prompt, outcome) ==
    LET request ==
            [model |-> m,
             max_tokens |-> IF max_tokens = None THEN IntV(1024) ELSE max_tokens,
             system |-> IF system_prompt \in {None, StrV(<<>>)}
                        THEN Absent ELSE system_prompt]
        cost == IF m = None THEN Raise("AttributeError")
                ELSE estimate_cost(outcome.input_tokens, outcome.output_tokens, m.v)
    IN  IF ~outcome.ok
        THEN [exc |-> "APIError", val |-> None, calls |-> 1, request |-> request]
        ELSE IF cost.exc # "none"
        THEN [exc |-> cost.exc, val |-> None, calls |-> 1, request |-> request]
        ELSE [exc |-> "none",
              val |-> [text |-> "text",
                       input_tokens |-> outcome.input_tokens,
                       output_tokens |-> outcome.output_tokens,
                       cost |-> cost.val,
                       model |-> m],
              calls |-> 1, request |-> request]

\* Client.query on a client with self.model = m, self.default_max_tokens = t:
\* the exception raised, the dict returned, the number of messages.create calls
\* and the request passed to it
query_result(m, t, max_tokens, system_prompt, outcome) ==
    IF m = None
    THEN [exc |-> "ValueError", val |-> None, calls |-> 0, request |-> None]
    ELSE LET request ==
                 [model |-> m,
                  max_tokens |-> IF max_tokens = None THEN t ELSE max_tokens,
                  system |-> IF system_prompt \in {None, StrV(<<>>)}  \* if system_prompt:
                             THEN Absent ELSE system_prompt]
             cost == estimate_cost(outcome.input_tokens, outcome.output_tokens, m.v)
         IN  IF ~outcome.ok
             THEN [exc |-> "APIError", val |-> None, calls |-> 1, request |-> request]
             ELSE IF cost.exc # "none"
             THEN [exc |-> cost.exc, val |-> None, calls |-> 1, request |-> request]
             ELSE [exc |-> "none",
                   val |-> [text |-> "text",
                            input_tokens |-> outcome.input_tokens,
                            output_tokens |-> outcome.output_tokens,
                            cost |-> cost.val,
                            model |-> m],
                   calls |-> 1, request |-> request]

query(max_tokens, system_prompt, outcome) ==
    /\ pc = "Ready"
    /\ LET r == query_result(model, default_max_tokens, max_tokens, system_prompt,
                             outcome)
       IN  /\ lastOp' = [op |-> "query", arg |-> max_tokens, exc |-> r.exc,
                         saved |-> FALSE]
           /\ lastIO' = [calls |-> r.calls, request |-> r.request,
                         response |-> IF r.calls = 0 THEN None ELSE outcome,
                         ret |-> r.val, save_args |-> <<>>]
    /\ UNCHANGED <<fs, pc, model, default_max_tokens, max_input, custom, setupDone,
                   cost_call, cost_ret>>

Next ==
    \/ Construct
    \/ \E text \in ModelChoices : ChooseModel(text)
    \/ \E text \in TokenChoices \ {<<"5">>} : ChooseMaxTokens(text, <<>>)
    \/ \E value \in CustomTexts : ChooseMaxTokens(<<"5">>, value)
    \/ \E text \in ConfirmAnswers : Confirm(text)
    \/ \E m \in SetModelArgs : set_model(m)
    \/ \E max_tokens \in MaxTokensArgs, outcome \in TransportOutcomes :
            query(max_tokens, None, outcome)

Spec == Init /\ [][Next]_vars

-----------------------------------------------------------------------------
(* Client.query on its own: a client object whose two attributes hold any   *)
(* of these values (they are public attributes, and query checks            *)
(* self.model itself), any arguments, any answer of the transport           *)

QueryInit ==
    /\ fs = [dir |-> TRUE, exists |-> FALSE, readable |-> FALSE,
             writable |-> FALSE, content |-> Garbage]
    /\ pc = "Ready"
    /\ model \in {None, StrV(HAIKU_MODEL), StrV(SONNET_MODEL), StrV(OPUS_MODEL),
                  StrV(UNKNOWN_MODEL)}
    /\ default_max_tokens \in {None, IntV(1024), IntV(2048), IntV(200000)}
    /\ max_input = 0
    /\ custom = 0
    /\ setupDone = FALSE
    /\ lastOp = NoOp
    /\ lastIO = NoIO
    /\ cost_call = NoCall
    /\ cost_ret = Raise("none")

QueryNext ==
    \E max_tokens \in MaxTokensArgs, system_prompt \in SystemPrompts,
       outcome \in TransportOutcomes :
        query(max_tokens, system_prompt, outcome)

QuerySpec == QueryInit /\ [][QueryNext]_vars

-----------------------------------------------------------------------------
(* estimate_cost on its own: any token counts, any model string *)

CostInit ==
    /\ fs = [dir |-> FALSE, exists |-> FALSE, readable |-> FALSE,
             writable |-> FALSE, content |-> Garbage]
    /\ pc = "NoClient"
    /\ model = None
    /\ default_max_tokens = None
    /\ max_input = 0
    /\ custom = 0
    /\ setupDone = FALSE
    /\ lastOp = NoOp
    /\ lastIO = NoIO
    /\ cost_call = NoCall
    /\ cost_ret = Raise("none")

EstimateCost(i, o, m) ==
    /\ cost_call' = [input_tokens |-> i, output_tokens |-> o, model |-> m]
    /\ cost_ret' = estimate_cost(i, o, m)
    /\ lastOp' = [op |-> "estimate_cost", arg |-> m,
                  exc |-> estimate_cost(i, o, m).exc, saved |-> FALSE]
    /\ UNCHANGED <<fs, pc, model, default_max_tokens, max_input, custom, setupDone,
                   lastIO>>

CostNext ==
    \E i \in 0..MaxTokenCount, o \in 0..MaxTokenCount, m \in CostModels :
        EstimateCost(i, o, m)

CostSpec == CostInit /\ [][CostNext]_vars

-----------------------------------------------------------------------------
(* What the claims speak of *)

KnownIdentifiers == {HAIKU_MODEL, SONNET_MODEL, OPUS_MODEL}

\* the persisted record's top-level `model` and nested `llm.default_max_tokens`
record_model(f) == dict_get(f.content.v, "model", Absent)
record_llm_tokens(f) ==
    LET llm == dict_get(f.content.v, "llm", Absent) IN
    IF llm.t = "obj" THEN dict_get(llm.v, "default_max_tokens", Absent) ELSE Absent

\* a valid Preference: a known model and 1 <= default_max_tokens <= context limit
ValidPreference(m, t) ==
    /\ m.t = "str" /\ m.v \in KnownIdentifiers
    /\ t.t = "int" /\ 1 <= t.v /\ t.v <= _get_context_limit(m.v)

\* the two letters are the same up to case
same_letter(a, b) ==
    a = b \/ \E i \in DOMAIN UpperChars : {a, b} = {UpperChars[i], LowerChars[i]}

\* the family token occurs in m, whatever the casing
has_token(m, tok) ==
    \E k \in 1..Len(m) :
        /\ k + Len(tok) - 1 <= Len(m)
        /\ \A j \in 1..Len(tok) : same_letter(m[k + j - 1], tok[j])

family_of(m) ==
    IF has_token(m, <<"h","a","i","k","u">>) THEN "haiku"
    ELSE IF has_token(m, <<"s","o","n","n","e","t">>) THEN "sonnet"
    ELSE IF has_token(m, <<"o","p","u","s">>) THEN "opus"
    ELSE "none"

input_price(fam) == IF fam = "haiku" THEN 1 ELSE IF fam = "sonnet" THEN 3 ELSE 5
output_price(fam) == IF fam = "haiku" THEN 5 ELSE IF fam = "sonnet" THEN 15 ELSE 25

\* the record load tolerates: missing, unreadable, not JSON, or JSON of another shape
Malformed(f) ==
    \/ ~f.exists
    \/ ~f.readable
    \/ f.content.t # "obj"
    \/ dict_get(f.content.v, "llm", ObjV(EmptyDict)).t # "obj"

-----------------------------------------------------------------------------
(* C1: round trip.  After a save of a valid Preference that completed, on a   *)
(* readable record, load returns exactly (model, default_max_tokens).        *)
C1_RoundTrip ==
    (/\ lastOp.saved
     /\ lastOp.exc = "none"
     /\ fs.readable
     /\ ValidPreference(model, default_max_tokens))
    => _load_model_from_config(fs) = Ret(<<model, default_max_tokens>>)

(* C2: merge.  A save over a parseable object overwrites only `model` and    *)
(* `llm.default_max_tokens`: every other top-level key present before is     *)
(* present afterwards with the same value.                                   *)
C2_MergeOnlyOwnedFields ==
    [][ (/\ lastOp'.saved
         /\ lastOp'.exc = "none"
         /\ fs.exists /\ fs.readable /\ fs.content.t = "obj")
        => \A k \in (DOMAIN fs.content.v) \ {"model", "llm"} :
              /\ k \in DOMAIN fs'.content.v
              /\ fs'.content.v[k] = fs.content.v[k] ]_vars

(* C3: first run.  From a fresh environment (no file, no config directory) a *)
(* selection flow that has chosen m and t completes without error and leaves *)
(* the record {"model": m, "llm": {"default_max_tokens": t}}.                *)
C3_FirstRunPersists ==
    [][ (/\ pc \in {"ChoosingMaxTokens", "Confirming"}
         /\ ~fs.exists /\ ~fs.dir
         /\ lastOp'.saved)
        => /\ pc' = "Ready"
           /\ lastOp'.exc = "none"
           /\ fs'.exists
           /\ fs'.content =
                ObjV([k \in {"model", "llm"} |->
                        IF k = "model" THEN model'
                        ELSE ObjV([j \in {"default_max_tokens"} |->
                                      default_max_tokens'])]) ]_vars

(* C4: no re-prompt.  Once a selection flow has saved, every later Client    *)
(* construction (the record readable, no other writer) loads the Preference  *)
(* and does not enter the selection flow.                                    *)
C4_NoRepromptAfterSetup ==
    (setupDone /\ lastOp.op = "__init__" /\ fs.readable)
    => (pc = "Ready" /\ lastOp.exc = "none")

(* C5: set_model(m) with a known m that completes keeps the in-memory        *)
(* default_max_tokens t, and the record then has model = m and               *)
(* llm.default_max_tokens = t.                                               *)
C5_SetModelPersistsBoth ==
    [][ (/\ pc = "Ready"
         /\ lastOp'.op = "set_model"
         /\ lastOp'.arg \in KnownIdentifiers
         /\ lastOp'.exc = "none")
        => /\ default_max_tokens' = default_max_tokens
           /\ record_model(fs') = StrV(lastOp'.arg)
           /\ record_llm_tokens(fs') = default_max_tokens ]_vars

(* C6: set_model(x) with x not exactly one of the three known identifiers    *)
(* raises, performs no save, and leaves model, default_max_tokens and the    *)
(* persisted record as they were.                                            *)
C6_InvalidModelRejected ==
    [][ (/\ pc = "Ready"
         /\ lastOp'.op = "set_model"
         /\ lastOp'.arg \notin KnownIdentifiers)
        => /\ lastOp'.exc = "ValueError"
           /\ ~lastOp'.saved
           /\ model' = model
           /\ default_max_tokens' = default_max_tokens
           /\ fs' = fs
           /\ pc' = pc ]_vars

\* set_model("Claude-Sonnet-4-5") was rejected on a ready client
C6_Witness ==
    /\ pc = "Ready"
    /\ lastOp.op = "set_model"
    /\ lastOp.arg = <<"C","l","a","u","d","e","-","S","o","n","n","e","t","-","4","-","5">>
    /\ lastOp.exc = "ValueError"

(* C7: load is tolerant.  On a missing, unreadable or malformed record       *)
(* (a top-level array or a non-object llm included) construction does not    *)
(* fail: load returns absent and the selection flow is entered.              *)
C7_LoadTolerant ==
    (lastOp.op = "__init__" /\ Malformed(fs))
    => /\ _load_model_from_config(fs) = Ret(<<None, None>>)
       /\ lastOp.exc = "none"
       /\ pc = "ChoosingModel"

(* C8: whenever a client is ready (after construction, after set_model),     *)
(* 1 <= default_max_tokens <= context_limit(model).                          *)
C8_MaxTokensWithinLimit ==
    pc = "Ready"
    => /\ default_max_tokens.t = "int"
       /\ 1 <= default_max_tokens.v
       /\ default_max_tokens.v <= _get_context_limit(model.v)

(* C9: for a model string containing a family token, in any casing,          *)
(* estimate_cost(i, o, m) * 1,000,000 = i * input_price + o * output_price   *)
(* with the prices of the family, chosen in the priority haiku, sonnet, opus. *)
C9_CostFormula ==
    (lastOp.op = "estimate_cost" /\ family_of(cost_call.model) # "none")
    => /\ cost_ret.exc = "none"
       /\ cost_ret.val.num * PER_MILLION =
            (cost_call.input_tokens * input_price(family_of(cost_call.model))
             + cost_call.output_tokens * output_price(family_of(cost_call.model)))
            * cost_ret.val.den

\* estimate_cost(2, 3, "sonnet-HAIKU") returned 17 millionths: haiku's prices
C9_Witness ==
    /\ lastOp.op = "estimate_cost"
    /\ cost_call = [input_tokens |-> 2, output_tokens |-> 3,
                    model |-> <<"s","o","n","n","e","t","-","H","A","I","K","U">>]
    /\ cost_ret = Ret([num |-> 17, den |-> PER_MILLION])

(* C10: for a model string containing no family token estimate_cost raises   *)
(* and returns no cost, whatever the token counts.                           *)
C10_UnknownModelFails ==
    (lastOp.op = "estimate_cost" /\ family_of(cost_call.model) = "none")
    => cost_ret = Raise("ValueError")

\* estimate_cost(3, 1, "gpt-4") raised
C10_Witness ==
    /\ lastOp.op = "estimate_cost"
    /\ cost_call = [input_tokens |-> 3, output_tokens |-> 1, model |-> UNKNOWN_MODEL]
    /\ cost_ret.exc = "ValueError"

-----------------------------------------------------------------------------
(* C11: a query whose transport call succeeds returns the transport's usage  *)
(* counts, the client's model and cost = estimate_cost(usage, model), and    *)
(* never fails, in every client state reached by construction and set_model. *)
C11_QuerySucceeds ==
    (lastOp.op = "query" /\ lastIO.calls = 1 /\ lastIO.response.ok)
    => /\ lastOp.exc = "none"
       /\ lastIO.ret.input_tokens = lastIO.response.input_tokens
       /\ lastIO.ret.output_tokens = lastIO.response.output_tokens
       /\ lastIO.ret.model = model
       /\ Ret(lastIO.ret.cost) =
            estimate_cost(lastIO.response.input_tokens,
                          lastIO.response.output_tokens, model.v)

(* C12: on transport failure query raises the transport's error, after       *)
(* exactly one transport call, returns nothing, and leaves the Preference    *)
(* and the persisted record unchanged.                                       *)
C12_TransportErrorSurfaced ==
    [][ (lastOp'.op = "query" /\ lastIO'.calls >= 1 /\ ~lastIO'.response.ok)
        => /\ lastOp'.exc = "APIError"
           /\ lastIO'.calls = 1
           /\ lastIO'.ret = None
           /\ model' = model
           /\ default_max_tokens' = default_max_tokens
           /\ fs' = fs
           /\ pc' = pc ]_vars

\* a query whose transport call failed
C12_Witness ==
    /\ lastOp.op = "query"
    /\ lastIO.calls = 1
    /\ lastIO.response = api_error
    /\ lastOp.exc = "APIError"

(* C13: query with no model resolved raises before any transport call; with *)
(* a model and max_tokens omitted the transport gets max_tokens =            *)
(* default_max_tokens.                                                       *)
C13_ModelCheckedAndDefaultUsed ==
    lastOp.op = "query"
    => /\ model = None
          => (lastOp.exc = "ValueError" /\ lastIO.calls = 0 /\ lastIO.ret = None)
       /\ (model # None /\ lastOp.arg = None)
          => (lastIO.calls = 1 /\ lastIO.request.max_tokens = default_max_tokens)

\* query on a client without a model raised, the transport not called
C13_Witness ==
    /\ lastOp.op = "query"
    /\ model = None
    /\ lastOp.exc = "ValueError"
    /\ lastIO.calls = 0

(* C14: whenever a client is ready and idle, load of the (readable)          *)
(* persisted record gives the in-memory (model, default_max_tokens), also    *)
(* after a set_model whose write failed.                                     *)
C14_MemoryMatchesRecord ==
    (pc = "Ready" /\ lastOp.op # "none" /\ fs.readable)
    => _load_model_from_config(fs) = Ret(<<model, default_max_tokens>>)

\* the custom value typed in this step is an integer in [1, context limit]
CustomStep == pc = "ChoosingMaxTokens" /\ lastOp'.op = "custom_max_tokens"
TypedValue == int_of(lastOp'.arg)
ContextLimitOfFamily == 200000
Accepted ==
    /\ TypedValue.exc = "none"
    /\ 1 <= TypedValue.val
    /\ TypedValue.val <= ContextLimitOfFamily

(* C15: the custom option accepts exactly the integers in                    *)
(* [1, context_limit]: such a value leaves ChoosingMaxTokens (committed, or  *)
(* awaiting confirmation); any other input changes nothing and re-enters     *)
(* ChoosingMaxTokens.                                                        *)
C15_CustomRange ==
    [][ CustomStep
        => IF Accepted
           THEN /\ pc' # "ChoosingMaxTokens"
                /\ TypedValue.val <= 10000
                   => (lastOp'.saved /\ lastIO'.save_args[2] = IntV(TypedValue.val))
                /\ TypedValue.val > 10000
                   => (pc' = "Confirming" /\ custom' = TypedValue.val)
           ELSE /\ pc' = "ChoosingMaxTokens"
                /\ default_max_tokens' = default_max_tokens
                /\ model' = model
                /\ fs' = fs
                /\ ~lastOp'.saved ]_vars

\* the custom value 200000 = context_limit was accepted
C15_Witness ==
    /\ lastOp.op = "custom_max_tokens"
    /\ lastOp.arg = <<"2","0","0","0","0","0">>
    /\ pc = "Confirming"
    /\ custom = 200000

ExplicitYes == {<<"y">>, <<"Y">>}

InFlow == pc \in {"ChoosingModel", "ChoosingMaxTokens", "Confirming"}
PresetValue(choice) ==
    IF choice = <<"1">> THEN 1024
    ELSE IF choice = <<"2">> THEN 2048
    ELSE IF choice = <<"3">> THEN 4096
    ELSE 8192
\* the max-tokens value chosen by the step that leaves the flow
ChosenTokens ==
    IF pc = "Confirming" THEN custom
    ELSE IF lastOp'.op = "custom_max_tokens" THEN TypedValue.val
    ELSE PresetValue(lastOp'.arg)

(* C17: a step of the selection flow saves only when it leaves the flow      *)
(* from ChoosingMaxTokens (or its confirmation), with the chosen model and   *)
(* the chosen max-tokens value; the flow ends Ready only through that one    *)
(* save; every step that stays in the flow saves nothing.                    *)
C17_SaveOnceAtEnd ==
    [][ InFlow
        => /\ lastOp'.saved
              => /\ pc \in {"ChoosingMaxTokens", "Confirming"}
                 /\ pc' \in {"Ready", "Failed"}
                 /\ model.t = "str" /\ model.v \in KnownIdentifiers
                 /\ lastIO'.save_args = <<model, IntV(ChosenTokens)>>
           /\ pc' = "Ready"
              => /\ lastOp'.saved /\ lastOp'.exc = "none"
                 /\ <<model', default_max_tokens'>> = lastIO'.save_args
           /\ pc' \in {"ChoosingModel", "ChoosingMaxTokens", "Confirming"}
              => (~lastOp'.saved /\ fs' = fs /\ lastIO'.save_args = <<>>) ]_vars

\* a flow ended with its one save, of (claude-opus-4-5, 200000), after a confirmation
C17_Witness ==
    /\ pc = "Ready"
    /\ lastOp.op = "confirm"
    /\ lastOp.saved
    /\ lastIO.save_args = <<StrV(OPUS_MODEL), IntV(200000)>>

NotBlank(c) == c # " "

(* C18: Aborted is entered only from ChoosingModel, on the quit option, with *)
(* no client, no save and the record unchanged; any input in ChoosingModel   *)
(* other than a model or quit re-enters ChoosingModel; no step in            *)
(* ChoosingModel saves or writes.                                            *)
C18_AbortOnlyByQuit ==
    [][ /\ (pc' = "Aborted" /\ pc # "Aborted")
           => /\ pc = "ChoosingModel"
              /\ lastOp'.op = "choose_model"
              /\ SelectSeq(lastOp'.arg, NotBlank) = <<"4">>
              /\ model' = None /\ default_max_tokens' = None
        /\ (pc = "ChoosingModel" /\ lastOp'.op = "choose_model"
            /\ SelectSeq(lastOp'.arg, NotBlank) \notin {<<"1">>, <<"2">>, <<"3">>, <<"4">>})
           => (pc' = "ChoosingModel" /\ model' = model)
        /\ pc = "ChoosingModel"
           => (~lastOp'.saved /\ fs' = fs) ]_vars

\* the user quit the model menu
C18_Witness ==
    /\ pc = "Aborted"
    /\ lastOp.op = "choose_model"
    /\ lastOp.arg = <<"4">>
    /\ ~lastOp.saved

(* C19: while the max-token prompt runs, the model is one of the three known *)
(* identifiers and MAX_INPUT is its family's limit, not the fallback; no     *)
(* step of the prompt ends in estimate_cost's ValueError.                    *)
C19_FallbackNeverUsed ==
    /\ pc \in {"ChoosingMaxTokens", "Confirming"}
       => /\ model.t = "str" /\ model.v \in KnownIdentifiers
          /\ max_input = ContextLimitOfFamily
          /\ max_input # FALLBACK_CONTEXT
    /\ lastOp.op \in {"choose_max_tokens", "custom_max_tokens", "confirm"}
       => lastOp.exc # "ValueError"

\* the high-cost estimate for (claude-haiku-4-5, 10001) was computed and shown
C19_Witness ==
    /\ pc = "Confirming"
    /\ model = StrV(HAIKU_MODEL)
    /\ max_input = HAIKU_CONTEXT
    /\ custom = 10001

====
